---- MODULE Spec2Model ----
(***************************************************************************)
(* A model of spqr.py, the cffi wrapper around SuiteSparseQR / CHOLMOD.    *)
(*                                                                         *)
(* Indices stored in matrices are 0-based, as in the program; TLA+         *)
(* sequences are 1-based, so position k of an array is element k+1.        *)
(* Matrix values are doubles in the program; the model uses small integers *)
(* whose sums are exact.                                                   *)
(***************************************************************************)
EXTENDS Integers, Sequences, FiniteSets, TLC

\* ------------------------------------------------------------------ bounds
MaxDim == 2
MaxNnz == 2
MaxPerm == 4

\* ffi.NULL, the null pointer
NULL == 0

\* values the entries of an input matrix are drawn from
Vals == {-1, 0, 1}

\* ----------------------------------------------------------------- helpers
Range(s) == {s[k] : k \in 1..Len(s)}

RECURSIVE SumIdx(_, _)
SumIdx(x, K) ==
    IF K = {} THEN 0
    ELSE LET k == CHOOSE k \in K : TRUE IN x[k] + SumIdx(x, K \ {k})

RECURSIVE SortedSeq(_)
SortedSeq(S) ==
    IF S = {} THEN <<>>
    ELSE LET m == CHOOSE m \in S : \A y \in S : m <= y
         IN <<m>> \o SortedSeq(S \ {m})

Max(a, b) == IF a > b THEN a ELSE b

\* a scipy.sparse.coo_matrix: shape and the three parallel arrays
Coo(nrow, ncol, row, col, data) ==
    [nrow |-> nrow, ncol |-> ncol, row |-> row, col |-> col, data |-> data]

NoMat == Coo(0, 0, <<>>, <<>>, <<>>)

\* scipy_A.nnz of a coo_matrix
nnz_of(A) == Len(A.data)

\* the (row, col, value) triples of a coordinate matrix, as a bag
Triples(A) ==
    LET S == {<<A.row[k], A.col[k], A.data[k]>> : k \in 1..nnz_of(A)}
    IN [t \in S |-> Cardinality({k \in 1..nnz_of(A) :
                        <<A.row[k], A.col[k], A.data[k]>> = t})]

HasDuplicates(A) ==
    \E k1, k2 \in 1..nnz_of(A) :
        k1 # k2 /\ A.row[k1] = A.row[k2] /\ A.col[k1] = A.col[k2]

\* ------------------------------------------------- native library (CHOLMOD)
\* cholmod_l_allocate_triplet: room for max(1, nzmax) entries, nnz = 0
cholmod_l_allocate_triplet(nrow, ncol, nzmax) ==
    [nrow |-> nrow, ncol |-> ncol, nzmax |-> Max(1, nzmax), nnz |-> 0,
     i |-> <<>>, j |-> <<>>, x |-> <<>>]

\* cholmod_l_check_triplet: 1 (TRUE) for a valid triplet, 0 (FALSE) otherwise
cholmod_l_check_triplet(T) ==
    IF /\ T.nnz <= T.nzmax
       /\ Len(T.i) >= T.nnz /\ Len(T.j) >= T.nnz /\ Len(T.x) >= T.nnz
       /\ \A k \in 1..T.nnz : /\ 0 <= T.i[k] /\ T.i[k] < T.nrow
                              /\ 0 <= T.j[k] /\ T.j[k] < T.ncol
    THEN 1 ELSE 0

\* the rows that hold an entry in column c of a triplet, ascending
ColI(T, c) ==
    SortedSeq({r \in 0..(T.nrow - 1) :
                  \E k \in 1..T.nnz : T.i[k] = r /\ T.j[k] = c})

\* the values of column c: entries of one (row, col) position are summed
ColX(T, c) ==
    [n \in 1..Len(ColI(T, c)) |->
        SumIdx(T.x, {k \in 1..T.nnz : T.i[k] = ColI(T, c)[n] /\ T.j[k] = c})]

RECURSIVE CatI(_, _)
CatI(T, c) == IF c < 0 THEN <<>> ELSE CatI(T, c - 1) \o ColI(T, c)

RECURSIVE CatX(_, _)
CatX(T, c) == IF c < 0 THEN <<>> ELSE CatX(T, c - 1) \o ColX(T, c)

\* cholmod_l_triplet_to_sparse: compressed-column form, p the column
\* pointers (ncol + 1 of them), i the row indices, x the values; the rows of
\* a column are sorted and duplicates are summed; explicit zeros are kept
cholmod_l_triplet_to_sparse(T) ==
    [nrow |-> T.nrow, ncol |-> T.ncol,
     p |-> [k \in 1..(T.ncol + 1) |-> Len(CatI(T, k - 2))],
     i |-> CatI(T, T.ncol - 1),
     x |-> CatX(T, T.ncol - 1)]

\* cholmod_l_sparse_to_triplet: every stored entry, column by column
cholmod_l_sparse_to_triplet(S) ==
    LET n == S.p[S.ncol + 1]
    IN [nrow |-> S.nrow, ncol |-> S.ncol, nzmax |-> Max(1, n), nnz |-> n,
        i |-> S.i,
        j |-> [q \in 1..n |->
                 CHOOSE c \in 0..(S.ncol - 1) :
                     S.p[c + 1] <= q - 1 /\ q - 1 < S.p[c + 2]],
        x |-> S.x]

\* --------------------------------------------------- wrapper: pure parts
\* scipy2choldmod, lines 48-56: the three arrays are copied verbatim and
\* nnz is set
fill_triplet_swapped(T, A) ==
    [T EXCEPT !.i = A.col, !.j = A.row, !.x = A.data, !.nnz = nnz_of(A)]

fill_triplet(T, A) ==
    [T EXCEPT !.i = A.row, !.j = A.col, !.x = A.data, !.nnz = nnz_of(A)]

\* the assertion of scipy2choldmod on the result of the native check
check_passes_nonnegative(r) == r >= 0

check_passes(r) == r = 1

\* cholmod2scipy, lines 72-92: nnz entries of each array are read out into
\* a coo_matrix of the triplet's shape
read_triplet(T) ==
    Coo(T.nrow, T.ncol,
        SubSeq(T.i, 1, T.nnz), SubSeq(T.j, 1, T.nnz), SubSeq(T.x, 1, T.nnz))

\* permutation_from_E
permutation_from_E_transposed(E) ==
    LET n == Len(E)
    IN Coo(n, n, [k \in 1..n |-> k - 1], E, [k \in 1..n |-> 1])

permutation_from_E(E) ==
    LET n == Len(E)
    IN Coo(n, n, E, [k \in 1..n |-> k - 1], [k \in 1..n |-> 1])

\* the runtime the module is loaded in: whether the literal "A" of line 58
\* is a byte string (accepted for a const char * parameter) or a text string
\* (refused by the binding with TypeError), and whether assert statements
\* are compiled away (python -O)
Envs == [str_is_bytes : BOOLEAN, optimised : BOOLEAN]

\* ------------------------------------------------------------ more bounds
MaxCalls == 2
MaxDeinit == 2

\* the address of a cell made by ffi.new: owned memory, never null
OwnedCell == 1

VARIABLES
    ctx,      \* cc, the process-wide cholmod_common: how often started, finished
    env,      \* the runtime, fixed when the module is loaded
    heap,     \* the native allocations of the running (or last) call, by
              \* handle (1..Len(heap)), and the one the caller still holds
    leaked,   \* how many allocations of earlier calls are still live, by kind;
              \* no pointer to them is left in the program
    held,     \* the compressed matrix a direct scipy2choldmod call returned
              \* to the caller, if any
    pc,       \* the statement the running call is at, "idle" between calls
    loc,      \* the local variables of the running call
    log,      \* what the running (or last) call has done so far, in order
    ret,      \* how the last call ended, and what it returned
    hist,     \* what the caller has invoked so far
    lastP,    \* the matrix the last permutation_from_E call returned
    rt_in, rt_out, rt_done,     \* a conversion round trip: input, result
    pe_in, pe_out, pe_done      \* permutation_from_E: input, result

vars == <<ctx, env, heap, leaked, held, pc, loc, log, ret, hist, lastP,
          rt_in, rt_out, rt_done, pe_in, pe_out, pe_done>>

rtvars == <<rt_in, rt_out, rt_done>>
pevars == <<pe_in, pe_out, pe_done>>

\* --------------------------------------------------------------- the context
\* lib.cholmod_l_start( cc ) and lib.cholmod_l_finish( cc )
cholmod_l_start(c) == [c EXCEPT !.started = @ + 1]

cholmod_l_finish(c) == [c EXCEPT !.finished = @ + 1]

\* module load, lines 33-34
module_load == cholmod_l_start([started |-> 0, finished |-> 0])

\* deinit(), line 37
deinit_starts(c) == cholmod_l_start(c)

deinit_ctx(c) == cholmod_l_finish(c)

\* ------------------------------------------------------------------ the heap
Freed == [freed |-> TRUE]

\* an allocation: carried tells that it was made by an earlier call and is
\* still held by the caller
Block(kind, by, v) ==
    [kind |-> kind, by |-> by, live |-> TRUE, frees |-> 0, carried |-> FALSE,
     v |-> v]

\* the allocations of kind that are still live
LiveOf(hp, kind) ==
    Cardinality({h \in 1..Len(hp) : hp[h].kind = kind /\ hp[h].live})

\* the native free of handle h; a null handle is left alone
Release(hp, h) ==
    IF h = NULL THEN hp
    ELSE [hp EXCEPT ![h] = [@ EXCEPT !.live = FALSE, !.frees = @ + 1,
                                       !.v = Freed]]

RECURSIVE ReleaseAll(_, _)
ReleaseAll(hp, hs) ==
    IF hs = <<>> THEN hp ELSE ReleaseAll(Release(hp, Head(hs)), Tail(hs))

\* one entry of the log: the native entry point (or wrapper step) op, run by
\* the wrapper function by, on the handles args, giving the handles res and
\* the integer result rc; fin tells whether cc had been finished by then
Ev(op, by, args, res, rc) ==
    [op |-> op, by |-> by, args |-> args, res |-> res, rc |-> rc,
     fin |-> ctx.finished > 0]

NativeOps == {"cholmod_l_allocate_triplet", "cholmod_l_print_triplet",
              "cholmod_l_check_triplet", "cholmod_l_triplet_to_sparse",
              "cholmod_l_free_triplet", "SuiteSparseQR_C_QR",
              "cholmod_l_sparse_to_triplet", "cholmod_l_free_sparse"}

\* --------------------------------------------------------- results of a call
NoE == [present |-> FALSE, v |-> <<>>]

SomeE(v) == [present |-> TRUE, v |-> v]

\* fn is the public function called; Q, R, E, rank are the tuple qr returns,
\* M the matrix cholmod2scipy returns
NoRet ==
    [kind |-> "none", fn |-> "none", Q |-> NoMat, R |-> NoMat, E |-> NoE,
     rank |-> 0, M |-> NoMat]

\* Reading through a null pointer is undefined: the process is killed, or
\* the binding raises. Either way the call ends without a result.
NullDerefOutcomes == {"SIGSEGV", "RuntimeError"}

InitLoc ==
    [entry |-> "none", A |-> NoMat, chol_T |-> NULL, result |-> NULL,
     chol_A |-> NULL, chol_Q |-> NULL, chol_R |-> NULL, chol_E |-> NULL,
     chol_E_cell |-> OwnedCell, rank |-> 0,
     which |-> "Q", arg |-> NULL, c2s_T |-> NULL, scipy_A |-> NoMat,
     scipy_Q |-> NoMat, scipy_R |-> NoMat, E |-> NoE]

NoHandle == [has |-> FALSE, h |-> NULL]

\* ------------------------------------------------------------- the inputs
Identity(n) ==
    Coo(n, n, [k \in 1..n |-> k - 1], [k \in 1..n |-> k - 1],
        [k \in 1..n |-> 1])

\* a matrix whose first row index was set out of range after construction
Malformed(n) == [Identity(n) EXCEPT !.row[1] = n]

\* a matrix without columns
NoColumns == Coo(1, 0, <<>>, <<>>, <<>>)

QrInputs ==
    {Identity(n) : n \in 1..MaxDim} \cup {Malformed(n) : n \in 1..MaxDim}
        \cup {NoColumns}

Perms(n) ==
    {s \in [1..n -> 0..(n - 1)] : \A a, b \in 1..n : s[a] = s[b] => a = b}

\* SuiteSparseQR_C_QR is opaque. On success it allocates Q and R, returns a
\* rank estimate, and leaves the permutation null or allocates a buffer of n
\* column indices. The factors stand for whatever the library computes.
SpqrOutcomes(S) ==
    {[rank |-> rk, Q |-> cholmod_l_triplet_to_sparse(
                            fill_triplet(cholmod_l_allocate_triplet(
                                S.nrow, S.nrow, S.nrow), Identity(S.nrow))),
      R |-> S, E |-> e] :
        rk \in 0..(IF S.nrow < S.ncol THEN S.nrow ELSE S.ncol),
        e \in {NoE} \cup {SomeE(s) : s \in Perms(S.ncol)}}

\* ------------------------------------------------------------------- Init
InitQr ==
    /\ ctx = module_load
    /\ env \in Envs
    /\ heap = <<>>
    /\ leaked = [triplet |-> 0, sparse |-> 0, perm |-> 0]
    /\ held = NoHandle
    /\ pc = "idle"
    /\ loc = InitLoc
    /\ log = <<>>
    /\ ret = NoRet
    /\ hist = [calls |-> 0, deinits |-> 0, callAfterDeinit |-> FALSE]
    /\ lastP = NoMat

InitRt == rt_in = NoMat /\ rt_out = NoMat /\ rt_done = FALSE

InitPe == pe_in = <<>> /\ pe_out = NoMat /\ pe_done = FALSE

Init == InitQr /\ InitRt /\ InitPe

\* a call that ends by an exception or by the death of the process
Fail(kind) == ret' = [NoRet EXCEPT !.kind = kind, !.fn = loc.entry] /\ pc' = "idle"

\* a call that returns
Return(r) == ret' = [r EXCEPT !.kind = "returned", !.fn = loc.entry] /\ pc' = "idle"

\* the allocation the caller still holds when a call begins
Carried ==
    IF held.has /\ held.h # NULL
    THEN <<[heap[held.h] EXCEPT !.carried = TRUE]>>
    ELSE <<>>

CarriedHandle == IF held.has /\ held.h # NULL THEN [held EXCEPT !.h = 1] ELSE held

\* the start of a call of a public function: what the last call left live,
\* other than what the caller holds, is out of the program's reach
BeginCall ==
    /\ pc = "idle"
    /\ hist.calls < MaxCalls
    /\ hist' = [hist EXCEPT !.calls = @ + 1,
                            !.callAfterDeinit = @ \/ ctx.finished > 0]
    /\ leaked' = [k \in {"triplet", "sparse", "perm"} |->
                     leaked[k] + LiveOf(heap, k) - LiveOf(Carried, k)]
    /\ held' = CarriedHandle

\* the call has done nothing yet
FreshFrame == heap' = Carried /\ log' = <<>> /\ ret' = NoRet

\* -------------------------------------------------------- public: deinit()
deinit ==
    /\ pc = "idle"
    /\ hist.deinits < MaxDeinit
    /\ ctx' = deinit_ctx(ctx)
    /\ hist' = [hist EXCEPT !.deinits = @ + 1]
    /\ UNCHANGED <<env, heap, leaked, held, pc, loc, log, ret, lastP>>
    /\ UNCHANGED <<rtvars, pevars>>

\* ------------------------------------------------------- public: qr( A )
qr_call ==
    /\ BeginCall /\ FreshFrame
    /\ \E A \in QrInputs : loc' = [InitLoc EXCEPT !.entry = "qr", !.A = A]
    /\ pc' = "s2c_alloc"
    /\ UNCHANGED <<ctx, env, lastP, rtvars, pevars>>

\* --------------------------------------- public: scipy2choldmod( scipy_A )
s2c_call ==
    /\ BeginCall /\ FreshFrame
    /\ \E A \in QrInputs :
          loc' = [InitLoc EXCEPT !.entry = "scipy2choldmod", !.A = A]
    /\ pc' = "s2c_alloc"
    /\ UNCHANGED <<ctx, env, lastP, rtvars, pevars>>

\* ------------------------------------------ public: cholmod2scipy( chol_A ),
\* on the matrix a scipy2choldmod call returned
c2s_call ==
    /\ held.has
    /\ BeginCall /\ FreshFrame
    /\ loc' = [InitLoc EXCEPT !.entry = "cholmod2scipy",
                              !.arg = CarriedHandle.h]
    /\ pc' = "c2s_convert"
    /\ UNCHANGED <<ctx, env, lastP, rtvars, pevars>>

\* cholmod_free_triplet, lines 99-102: the triplet is released through a
\* fresh cell
cholmod_free_triplet(hp, A) == Release(hp, A)

\* ------------------------------------------ public: cholmod_free_triplet( A ),
\* on a triplet the caller made
free_triplet_call ==
    /\ BeginCall
    /\ LET T == Len(Carried) + 1
       IN /\ heap' = cholmod_free_triplet(
                         Append(Carried, Block("triplet", "caller",
                                    cholmod_l_allocate_triplet(1, 1, 0))), T)
          /\ log' = <<Ev("cholmod_l_free_triplet", "cholmod_free_triplet",
                         <<T>>, <<>>, 0)>>
    /\ loc' = [InitLoc EXCEPT !.entry = "cholmod_free_triplet"]
    /\ ret' = [NoRet EXCEPT !.kind = "returned", !.fn = "cholmod_free_triplet"]
    /\ pc' = "idle"
    /\ UNCHANGED <<ctx, env, lastP, rtvars, pevars>>

\* the composition cholmod2scipy( scipy2choldmod( A ) )
rt_call ==
    /\ hist.calls = 0
    /\ BeginCall /\ FreshFrame
    /\ loc' = [InitLoc EXCEPT !.entry = "roundtrip", !.A = rt_in]
    /\ pc' = "s2c_alloc"
    /\ UNCHANGED <<ctx, env, lastP, rtvars, pevars>>

\* scipy2choldmod, line 46: the triplet is allocated, or the library is out
\* of memory and returns null
s2c_alloc ==
    /\ pc = "s2c_alloc"
    /\ \E ok \in BOOLEAN :
        LET h == IF ok THEN Len(heap) + 1 ELSE NULL
        IN /\ heap' = IF ok
                      THEN Append(heap, Block("triplet", "scipy2choldmod",
                               cholmod_l_allocate_triplet(
                                   loc.A.nrow, loc.A.ncol, nnz_of(loc.A))))
                      ELSE heap
           /\ loc' = [loc EXCEPT !.chol_T = h]
           /\ log' = Append(log, Ev("cholmod_l_allocate_triplet",
                                    "scipy2choldmod", <<>>, <<h>>, 0))
    /\ pc' = "s2c_fill"
    /\ UNCHANGED <<ctx, env, leaked, held, ret, hist, lastP, rtvars, pevars>>

\* scipy2choldmod, lines 48-56: the fields of the triplet are read and its
\* arrays written
s2c_fill ==
    /\ pc = "s2c_fill"
    /\ IF loc.chol_T = NULL
       THEN /\ \E o \in NullDerefOutcomes : Fail(o)
            /\ log' = Append(log, Ev("deref", "scipy2choldmod",
                                     <<NULL>>, <<>>, 0))
            /\ UNCHANGED heap
       ELSE /\ heap' = [heap EXCEPT ![loc.chol_T].v = fill_triplet(@, loc.A)]
            /\ pc' = "s2c_check"
            /\ UNCHANGED <<log, ret>>
    /\ UNCHANGED <<ctx, env, leaked, held, loc, hist, lastP, rtvars, pevars>>

\* line 58: the binding takes the literal "A" for the const char * parameter
\* only when it is a byte string
name_accepted(e) == e.str_is_bytes

\* line 59: the assert statement, and the check call in it, exist unless
\* the module was compiled with optimisation
assert_compiled(e) == ~e.optimised

\* scipy2choldmod, lines 58-59: the triplet is printed and checked, and the
\* result of the check asserted
s2c_check ==
    /\ pc = "s2c_check"
    /\ IF ~name_accepted(env)
       THEN Fail("TypeError") /\ UNCHANGED log
       ELSE IF ~assert_compiled(env)
       THEN /\ log' = Append(log, Ev("cholmod_l_print_triplet",
                                     "scipy2choldmod", <<loc.chol_T>>, <<>>, 1))
            /\ pc' = "s2c_convert"
            /\ UNCHANGED ret
       ELSE LET r == cholmod_l_check_triplet(heap[loc.chol_T].v)
            IN /\ log' = log \o
                     <<Ev("cholmod_l_print_triplet", "scipy2choldmod",
                          <<loc.chol_T>>, <<>>, 1),
                       Ev("cholmod_l_check_triplet", "scipy2choldmod",
                          <<loc.chol_T>>, <<>>, r)>>
               /\ IF check_passes(r)
                  THEN pc' = "s2c_convert" /\ UNCHANGED ret
                  ELSE Fail("AssertionError")
    /\ UNCHANGED <<ctx, env, heap, leaked, held, loc, hist, lastP, rtvars, pevars>>

\* scipy2choldmod, line 62: the compressed matrix is made, or null returned
s2c_convert ==
    /\ pc = "s2c_convert"
    /\ \E ok \in BOOLEAN :
        LET h == IF ok THEN Len(heap) + 1 ELSE NULL
        IN /\ heap' = IF ok
                      THEN Append(heap, Block("sparse", "scipy2choldmod",
                               cholmod_l_triplet_to_sparse(heap[loc.chol_T].v)))
                      ELSE heap
           /\ loc' = [loc EXCEPT !.result = h]
           /\ log' = Append(log, Ev("cholmod_l_triplet_to_sparse",
                                    "scipy2choldmod", <<loc.chol_T>>, <<h>>, 0))
    /\ pc' = "s2c_free"
    /\ UNCHANGED <<ctx, env, leaked, held, ret, hist, lastP, rtvars, pevars>>

\* scipy2choldmod, lines 64-66: the triplet is released and the compressed
\* matrix returned, to qr (line 112), to cholmod2scipy in the composition,
\* or to the caller
s2c_free ==
    /\ pc = "s2c_free"
    /\ heap' = cholmod_free_triplet(heap, loc.chol_T)
    /\ log' = Append(log, Ev("cholmod_l_free_triplet", "scipy2choldmod",
                             <<loc.chol_T>>, <<>>, 0))
    /\ CASE loc.entry = "qr" ->
              /\ loc' = [loc EXCEPT !.chol_A = loc.result]
              /\ pc' = "qr_factor"
              /\ UNCHANGED <<ret, held>>
         [] loc.entry = "roundtrip" ->
              /\ loc' = [loc EXCEPT !.arg = loc.result]
              /\ pc' = "c2s_convert"
              /\ UNCHANGED <<ret, held>>
         [] OTHER ->
              /\ Return(NoRet)
              /\ held' = [has |-> TRUE, h |-> loc.result]
              /\ UNCHANGED loc
    /\ UNCHANGED <<ctx, env, leaked, hist, lastP, rtvars, pevars>>

\* qr, lines 114-129: the three output cells are made, holding null, and the
\* factorization called; it returns -1 and writes nothing when it fails or
\* is handed a null matrix
qr_factor ==
    /\ pc = "qr_factor"
    /\ \/ /\ loc' = [loc EXCEPT !.rank = -1]
          /\ log' = Append(log, Ev("SuiteSparseQR_C_QR", "qr",
                                   <<loc.chol_A>>, <<NULL, NULL, NULL>>, -1))
          /\ UNCHANGED heap
       \/ /\ loc.chol_A # NULL
          /\ \E o \in SpqrOutcomes(heap[loc.chol_A].v) :
              LET q == Len(heap) + 1
                  r == Len(heap) + 2
                  e == IF o.E.present THEN Len(heap) + 3 ELSE NULL
              IN /\ heap' = heap
                       \o <<Block("sparse", "SuiteSparseQR_C_QR", o.Q),
                            Block("sparse", "SuiteSparseQR_C_QR", o.R)>>
                       \o (IF o.E.present
                           THEN <<Block("perm", "SuiteSparseQR_C_QR",
                                        [buf |-> o.E.v])>>
                           ELSE <<>>)
                 /\ loc' = [loc EXCEPT !.rank = o.rank, !.chol_Q = q,
                                       !.chol_R = r, !.chol_E = e]
                 /\ log' = Append(log, Ev("SuiteSparseQR_C_QR", "qr",
                                          <<loc.chol_A>>, <<q, r, e>>, o.rank))
    /\ pc' = "c2s_convert"
    /\ UNCHANGED <<ctx, env, leaked, held, ret, hist, lastP, rtvars, pevars>>

\* the argument of the running cholmod2scipy call (lines 131, 132 in qr)
c2s_arg ==
    IF loc.entry = "qr"
    THEN (IF loc.which = "Q" THEN loc.chol_Q ELSE loc.chol_R)
    ELSE loc.arg

\* cholmod2scipy, line 70: the triplet form is made; null is returned for a
\* null matrix or when out of memory
c2s_convert ==
    /\ pc = "c2s_convert"
    /\ \E ok \in {FALSE} \cup {c2s_arg # NULL} :
        LET h == IF ok THEN Len(heap) + 1 ELSE NULL
        IN /\ heap' = IF ok
                      THEN Append(heap, Block("triplet", "cholmod2scipy",
                               cholmod_l_sparse_to_triplet(heap[c2s_arg].v)))
                      ELSE heap
           /\ loc' = [loc EXCEPT !.c2s_T = h]
           /\ log' = Append(log, Ev("cholmod_l_sparse_to_triplet",
                                    "cholmod2scipy", <<c2s_arg>>, <<h>>, 0))
    /\ pc' = "c2s_read"
    /\ UNCHANGED <<ctx, env, leaked, held, ret, hist, lastP, rtvars, pevars>>

\* cholmod2scipy, lines 72-92: the fields and arrays of the triplet are read
c2s_read ==
    /\ pc = "c2s_read"
    /\ IF loc.c2s_T = NULL
       THEN /\ \E o \in NullDerefOutcomes : Fail(o)
            /\ log' = Append(log, Ev("deref", "cholmod2scipy",
                                     <<NULL>>, <<>>, 0))
            /\ UNCHANGED loc
       ELSE /\ loc' = [loc EXCEPT !.scipy_A = read_triplet(heap[loc.c2s_T].v)]
            /\ pc' = "c2s_free"
            /\ UNCHANGED <<log, ret>>
    /\ UNCHANGED <<ctx, env, heap, leaked, held, hist, lastP, rtvars, pevars>>

\* the handles cholmod2scipy releases (line 95), given its triplet and its
\* argument
c2s_releases_argument_too(T, arg) == <<T, arg>>

c2s_releases(T, arg) == <<T>>

\* cholmod2scipy, lines 95-97: the triplet is released and the matrix
\* returned, to qr (lines 131, 132) or to the caller
c2s_free ==
    /\ pc = "c2s_free"
    /\ heap' = ReleaseAll(heap, c2s_releases(loc.c2s_T, c2s_arg))
    /\ log' = log \o
         [k \in 1..Len(c2s_releases(loc.c2s_T, c2s_arg)) |->
             Ev("cholmod_l_free_triplet", "cholmod2scipy",
                <<c2s_releases(loc.c2s_T, c2s_arg)[k]>>, <<>>, 0)]
    /\ CASE loc.entry = "qr" /\ loc.which = "Q" ->
              /\ loc' = [loc EXCEPT !.scipy_Q = loc.scipy_A, !.which = "R"]
              /\ pc' = "c2s_convert"
              /\ UNCHANGED <<ret, rt_out, rt_done>>
         [] loc.entry = "qr" /\ loc.which = "R" ->
              /\ loc' = [loc EXCEPT !.scipy_R = loc.scipy_A]
              /\ pc' = "qr_E"
              /\ UNCHANGED <<ret, rt_out, rt_done>>
         [] loc.entry = "roundtrip" ->
              /\ Return([NoRet EXCEPT !.M = loc.scipy_A])
              /\ rt_out' = loc.scipy_A
              /\ rt_done' = TRUE
              /\ UNCHANGED loc
         [] OTHER ->
              /\ Return([NoRet EXCEPT !.M = loc.scipy_A])
              /\ UNCHANGED <<loc, rt_out, rt_done>>
    /\ UNCHANGED <<ctx, env, leaked, held, hist, lastP, rt_in, pevars>>

\* qr, line 135: chol_E names the cell made by ffi.new, not the pointer the
\* library stored in it
E_is_absent(cell, stored) == cell = NULL

\* how many entries of the permutation buffer qr copies (line 142)
E_copied(A) == A.ncol

\* qr, lines 135-142; the slice of line 142 reads through the stored pointer
\* unless it is empty
qr_E ==
    /\ pc = "qr_E"
    /\ IF E_is_absent(loc.chol_E_cell, loc.chol_E)
       THEN /\ loc' = [loc EXCEPT !.E = NoE]
            /\ pc' = "qr_freeQ"
            /\ UNCHANGED <<log, ret>>
       ELSE IF loc.chol_E = NULL /\ E_copied(loc.A) > 0
       THEN /\ \E o \in NullDerefOutcomes : Fail(o)
            /\ log' = Append(log, Ev("read_E", "qr", <<NULL>>, <<>>,
                                     E_copied(loc.A)))
            /\ UNCHANGED loc
       ELSE /\ loc' = [loc EXCEPT !.E =
                          SomeE(IF loc.chol_E = NULL THEN <<>>
                                ELSE SubSeq(heap[loc.chol_E].v.buf, 1,
                                            E_copied(loc.A)))]
            /\ log' = Append(log, Ev("read_E", "qr", <<loc.chol_E>>, <<>>,
                                     E_copied(loc.A)))
            /\ pc' = "qr_freeQ"
            /\ UNCHANGED ret
    /\ UNCHANGED <<ctx, env, heap, leaked, held, hist, lastP, rtvars, pevars>>

\* qr, line 145; the library nulls the cell
qr_freeQ ==
    /\ pc = "qr_freeQ"
    /\ heap' = Release(heap, loc.chol_Q)
    /\ log' = Append(log, Ev("cholmod_l_free_sparse", "qr",
                             <<loc.chol_Q>>, <<>>, 0))
    /\ loc' = [loc EXCEPT !.chol_Q = NULL]
    /\ pc' = "qr_freeR"
    /\ UNCHANGED <<ctx, env, leaked, held, ret, hist, lastP, rtvars, pevars>>

\* qr, line 146
qr_freeR ==
    /\ pc = "qr_freeR"
    /\ heap' = Release(heap, loc.chol_R)
    /\ log' = Append(log, Ev("cholmod_l_free_sparse", "qr",
                             <<loc.chol_R>>, <<>>, 0))
    /\ loc' = [loc EXCEPT !.chol_R = NULL]
    /\ pc' = "qr_return"
    /\ UNCHANGED <<ctx, env, leaked, held, ret, hist, lastP, rtvars, pevars>>

\* qr, line 150
qr_return ==
    /\ pc = "qr_return"
    /\ Return([NoRet EXCEPT !.Q = loc.scipy_Q, !.R = loc.scipy_R,
                            !.E = loc.E, !.rank = loc.rank])
    /\ UNCHANGED <<ctx, env, heap, leaked, held, loc, log, hist, lastP>>
    /\ UNCHANGED <<rtvars, pevars>>

\* ------------------------------------- public: permutation_from_E( E ),
\* called as the self-test does, on the E the last qr call returned
perm_call ==
    /\ pc = "idle"
    /\ ret.kind = "returned"
    /\ ret.E.present
    /\ lastP' = permutation_from_E(ret.E.v)
    /\ UNCHANGED <<ctx, env, heap, leaked, held, pc, loc, log, ret, hist>>
    /\ UNCHANGED <<rtvars, pevars>>

Next ==
    \/ deinit
    \/ qr_call
    \/ s2c_call
    \/ c2s_call
    \/ free_triplet_call
    \/ s2c_alloc
    \/ s2c_fill
    \/ s2c_check
    \/ s2c_convert
    \/ s2c_free
    \/ qr_factor
    \/ c2s_convert
    \/ c2s_read
    \/ c2s_free
    \/ qr_E
    \/ qr_freeQ
    \/ qr_freeR
    \/ qr_return
    \/ perm_call

Spec == Init /\ [][Next]_vars

\* ------------------------------------------------ the conversion round trip
\* the input is any coordinate matrix of at most MaxDim rows and columns with
\* at most MaxNnz stored entries, indices within the shape
InitRT ==
    /\ InitQr /\ InitPe
    /\ \E m \in 1..MaxDim, n \in 1..MaxDim, k \in 0..MaxNnz :
          \E r \in [1..k -> 0..(m - 1)], c \in [1..k -> 0..(n - 1)],
             d \in [1..k -> Vals] :
                rt_in = Coo(m, n, r, c, d)
    /\ rt_out = NoMat /\ rt_done = FALSE

NextRT ==
    \/ rt_call
    \/ s2c_alloc
    \/ s2c_fill
    \/ s2c_check
    \/ s2c_convert
    \/ s2c_free
    \/ c2s_convert
    \/ c2s_read
    \/ c2s_free

SpecRT == InitRT /\ [][NextRT]_vars

\* --------------------------------------------------- permutation_from_E alone
\* every sequence of n indices below n, bijections and others
PermInputs(maxn) == UNION {[1..n -> 0..(n - 1)] : n \in 1..maxn}

InitPerm ==
    /\ InitQr /\ InitRt
    /\ pe_in \in PermInputs(MaxPerm) /\ pe_out = NoMat /\ pe_done = FALSE

perm_apply ==
    /\ ~pe_done
    /\ pe_out' = permutation_from_E(pe_in)
    /\ pe_done' = TRUE
    /\ UNCHANGED <<ctx, env, heap, leaked, held, pc, loc, log, ret, hist, lastP>>
    /\ UNCHANGED <<pe_in, rtvars>>

NextPerm == perm_apply

SpecPerm == InitPerm /\ [][NextPerm]_vars

\* ---------------------------------------------------------------- reading the log
Events(op) == {k \in 1..Len(log) : log[k].op = op}

\* the handles of the running (or last) call
CallHandles == 1..Len(heap)

ConversionOps == {"cholmod_l_triplet_to_sparse", "cholmod_l_sparse_to_triplet",
                  "SuiteSparseQR_C_QR"}

FreeOps == {"cholmod_l_free_triplet", "cholmod_l_free_sparse"}

\* the event k reports a failure of the native entry point
SignalsFailure(k) ==
    \/ /\ log[k].op \in {"cholmod_l_allocate_triplet",
                         "cholmod_l_triplet_to_sparse",
                         "cholmod_l_sparse_to_triplet"}
       /\ log[k].res = <<NULL>>
    \/ /\ log[k].op = "SuiteSparseQR_C_QR"
       /\ (log[k].rc < 0 \/ log[k].res[1] = NULL \/ log[k].res[2] = NULL)

InScipy2choldmod ==
    pc \in {"s2c_alloc", "s2c_fill", "s2c_check", "s2c_convert", "s2c_free"}

IsBijection(E) ==
    /\ \A k \in 1..Len(E) : E[k] \in 0..(Len(E) - 1)
    /\ \A a, b \in 1..Len(E) : E[a] = E[b] => a = b

\* --------------------------------------------------------------------- C2
\* C2: after a qr call that returned normally, every triplet and compressed
\* handle the layer created during the call has been released exactly once,
\* so none is live between calls.
C2_NoLiveHandlesBetweenCalls ==
    (pc = "idle" /\ ret.kind = "returned" /\ ret.fn = "qr") =>
        \A h \in CallHandles :
            (heap[h].kind \in {"triplet", "sparse"} /\ ~heap[h].carried) =>
                heap[h].frees = 1 /\ ~heap[h].live

\* --------------------------------------------------------------------- C3
\* C3: when the factorization leaves the permutation pointer null, qr never
\* reads through it and returns E absent; otherwise the E returned is the
\* first n entries of the native buffer, in order.
C3_PermutationMarshalled ==
    \A k \in Events("SuiteSparseQR_C_QR") :
        (~SignalsFailure(k)) =>
            IF log[k].res[3] = NULL
            THEN /\ \A j \in Events("read_E") :
                        NULL \in Range(log[j].args) => log[j].rc = 0
                 /\ pc \in {"qr_freeQ", "qr_freeR", "qr_return"} => ~loc.E.present
                 /\ ret.kind \in {"none", "returned"}
                 /\ ret.kind = "returned" => ~ret.E.present
            ELSE ret.kind = "returned" =>
                    /\ ret.E.present
                    /\ ret.E.v = SubSeq(heap[log[k].res[3]].v.buf, 1, loc.A.ncol)

\* --------------------------------------------------------------------- C4
\* C4 as stated: the round trip of any coordinate matrix with nnz > 0,
\* duplicates and explicit zeros included, has the shape and exactly the
\* multiset of (row, col, value) triples of the input.
C4_RoundTripExact ==
    (rt_done /\ nnz_of(rt_in) > 0) =>
        /\ rt_out.nrow = rt_in.nrow /\ rt_out.ncol = rt_in.ncol
        /\ Triples(rt_out) = Triples(rt_in)

Cells(A) == {<<A.row[k], A.col[k]>> : k \in 1..nnz_of(A)}

CellValue(A, cell) ==
    SumIdx(A.data, {k \in 1..nnz_of(A) : <<A.row[k], A.col[k]>> = cell})

\* C4 amended: the round trip keeps the shape; for an input without duplicate
\* (row, col) pairs (explicit zeros allowed) it keeps exactly the multiset of
\* triples; entries that share a position come back as one entry holding
\* their sum.
C4_RoundTripSumsDuplicates ==
    (rt_done /\ nnz_of(rt_in) > 0) =>
        /\ rt_out.nrow = rt_in.nrow /\ rt_out.ncol = rt_in.ncol
        /\ ~HasDuplicates(rt_in) => Triples(rt_out) = Triples(rt_in)
        /\ ~HasDuplicates(rt_out)
        /\ Cells(rt_out) = Cells(rt_in)
        /\ \A cell \in Cells(rt_in) : CellValue(rt_out, cell) = CellValue(rt_in, cell)

C4_Witness ==
    /\ rt_done
    /\ rt_in.nrow = 1 /\ rt_in.ncol = 2
    /\ nnz_of(rt_in) = 2 /\ ~HasDuplicates(rt_in)
    /\ rt_in.col = <<1, 0>>
    /\ rt_in.data = <<0, 1>>
    /\ rt_out.col = <<0, 1>> /\ rt_out.data = <<1, 0>>

\* --------------------------------------------------------------------- C5
\* C5: for a bijection E on [0, n), permutation_from_E(E) is n x n with
\* exactly n stored entries, all 1, the k-th at (E[k], k): one entry in
\* every row and one in every column.
C5_PermutationMatrix ==
    (pe_done /\ IsBijection(pe_in)) =>
        LET n == Len(pe_in)
        IN /\ pe_out.nrow = n /\ pe_out.ncol = n
           /\ Len(pe_out.row) = n /\ Len(pe_out.col) = n /\ Len(pe_out.data) = n
           /\ \A k \in 1..n : /\ pe_out.data[k] = 1
                              /\ pe_out.row[k] = pe_in[k]
                              /\ pe_out.col[k] = k - 1
           /\ \A r \in 0..(n - 1) :
                 Cardinality({k \in 1..n : pe_out.row[k] = r}) = 1
           /\ \A c \in 0..(n - 1) :
                 Cardinality({k \in 1..n : pe_out.col[k] = c}) = 1

C5_Witness ==
    /\ pe_done
    /\ pe_in = <<1, 2, 0>>
    /\ pe_out.row = <<1, 2, 0>> /\ pe_out.col = <<0, 1, 2>>

\* --------------------------------------------------------------------- C6
\* C6: a structural check that does not report success ends the call by an
\* AssertionError: it is the last thing the call does, so neither the
\* triplet-to-compressed conversion nor the factorization is invoked, and
\* nothing is returned.
C6_FailedCheckIsFatal ==
    \A k \in Events("cholmod_l_check_triplet") :
        log[k].rc # 1 =>
            /\ k = Len(log)
            /\ pc = "idle"
            /\ ret.kind = "AssertionError"
            /\ Events("cholmod_l_triplet_to_sparse") = {}
            /\ Events("SuiteSparseQR_C_QR") = {}

C6_Witness ==
    /\ ret.kind = "AssertionError"
    /\ \E k \in Events("cholmod_l_check_triplet") : log[k].rc = 0
    /\ loc.A = Malformed(2)

\* --------------------------------------------------------------------- C7
\* C7: once a native entry point has signalled failure in a qr call, the
\* call returns no tuple and makes no further native call on a null handle.
C7_NativeFailurePropagates ==
    \A k \in 1..Len(log) :
        (loc.entry = "qr" /\ SignalsFailure(k)) =>
            /\ ret.kind # "returned"
            /\ \A j \in (k + 1)..Len(log) :
                  log[j].op \in NativeOps => NULL \notin Range(log[j].args)

\* --------------------------------------------------------------------- C8
\* C8 as stated: the context is started exactly once, finalized at most
\* once, and no conversion or factorization call uses it once finalized.
C8_ContextLifecycle ==
    /\ ctx.started = 1
    /\ ctx.finished <= 1
    /\ \A k \in 1..Len(log) : log[k].op \in ConversionOps => ~log[k].fin

\* C8 amended: the context is started exactly once; every deinit() call
\* finalizes it, whether or not it was finalized before; and a conversion or
\* factorization call uses a finalized context only in a call the caller
\* made after deinit().
C8_ContextLifecycleUnguarded ==
    /\ ctx.started = 1
    /\ ctx.finished = hist.deinits
    /\ (\E k \in 1..Len(log) : log[k].op \in ConversionOps /\ log[k].fin)
           => hist.callAfterDeinit

C8_Witness ==
    /\ ctx.started = 1 /\ ctx.finished = 1 /\ hist.deinits = 1
    /\ ~hist.callAfterDeinit
    /\ ret.kind = "returned" /\ ret.fn = "qr"
    /\ lastP # NoMat

\* --------------------------------------------------------------------- C9
\* C9: whenever scipy2choldmod has been left, by return or by the failed
\* assertion, the triplet it allocated has been released exactly once, and
\* not before the conversion that reads it.
C9_TripletReleasedOnEveryExit ==
    (hist.calls > 0 /\ ~InScipy2choldmod) =>
        \A h \in CallHandles :
            (heap[h].kind = "triplet" /\ heap[h].by = "scipy2choldmod") =>
                /\ heap[h].frees = 1
                /\ \A f \in Events("cholmod_l_free_triplet") :
                      log[f].args = <<h>> =>
                          \E c \in Events("cholmod_l_triplet_to_sparse") :
                              log[c].args = <<h>> /\ c < f

\* -------------------------------------------------------------------- C10
\* C10: in a call that returned normally, qr itself released Q and R, each
\* exactly once, after both conversions and after the permutation was copied;
\* cholmod2scipy released only the triplets it made, each once; and the
\* permutation buffer is still allocated.
C10_FactorsReleasedLast ==
    ret.kind = "returned" =>
        \A k \in Events("SuiteSparseQR_C_QR") :
            LET Q == log[k].res[1]
                R == log[k].res[2]
                E == log[k].res[3]
            IN /\ \A h \in {Q, R} :
                    /\ heap[h].frees = 1
                    /\ \A f \in 1..Len(log) :
                          (log[f].op \in FreeOps /\ log[f].args = <<h>>) =>
                              /\ log[f].op = "cholmod_l_free_sparse"
                              /\ log[f].by = "qr"
                              /\ \A c \in Events("cholmod_l_sparse_to_triplet") : c < f
                              /\ \A c \in Events("read_E") : c < f
               /\ {log[c].args : c \in Events("cholmod_l_sparse_to_triplet")}
                      = {<<Q>>, <<R>>}
               /\ \A f \in 1..Len(log) :
                     (log[f].op \in FreeOps /\ log[f].by = "cholmod2scipy") =>
                         \E c \in Events("cholmod_l_sparse_to_triplet") :
                             log[c].res = log[f].args /\ c < f
               /\ \A h \in CallHandles :
                     (heap[h].kind = "triplet" /\ heap[h].by = "cholmod2scipy")
                         => heap[h].frees = 1
               /\ E # NULL => (heap[E].live /\ heap[E].frees = 0)

C10_Witness ==
    /\ ret.kind = "returned"
    /\ ret.E.present /\ ret.E.v = <<1, 0>>
    /\ \E k \in Events("SuiteSparseQR_C_QR") :
          /\ heap[log[k].res[1]].frees = 1
          /\ heap[log[k].res[2]].frees = 1
          /\ heap[log[k].res[3]].live
    /\ Cardinality(Events("cholmod_l_free_sparse")) = 2

====
